---- MODULE Spec2Model ----
(***************************************************************************)
(* State-machine model of handler/handler.go: the echo handlers over the   *)
(* users, city and country tables and the cookie-keyed session store.      *)
(* Every call a handler makes to the store or to the session store is one  *)
(* atomic step; requests of different clients interleave between steps.    *)
(***************************************************************************)
EXTENDS Integers, Sequences, FiniteSets, Bags, TLC

VARIABLES users, city, nextId, country, sessions, pc, req, loc, last

vars == <<users, city, nextId, country, sessions, pc, req, loc, last>>

(***************************************************************************)
(* Bounds of the model.                                                    *)
(***************************************************************************)
\* rows the users table may hold
MaxUsers == 2
\* rows the city table may hold
MaxCities == 3
\* rows the country table may hold
MaxCountries == 2

\* concurrent requests in flight (one per client connection)
Procs == {"p1", "p2"}
\* session cookies clients may present
SessionIds == {"s1", "s2"}
Usernames == {"alice", "bob"}
Passwords == {"secret", "hunter2"}
\* salts bcrypt may draw
Salts == {1}

(***************************************************************************)
(* net/http status codes used by the handlers.                             *)
(***************************************************************************)
StatusOK == 200
StatusCreated == 201
StatusBadRequest == 400
StatusUnauthorized == 401
StatusNotFound == 404
StatusConflict == 409
StatusInternalServerError == 500

(***************************************************************************)
(* JSON values as encoding/json writes them, tagged by their JSON type.    *)
(***************************************************************************)
JStr(s) == [str |-> s]
JNum(n) == [num |-> n]
JBool(b) == [bool |-> b]
JObj(f) == [obj |-> f]
JArr(q) == [arr |-> q]
JNull == [null |-> TRUE]

(***************************************************************************)
(* Response bodies: c.NoContent, c.String, c.JSON, and echo's rendering of *)
(* an echo.HTTPError returned by a handler ({"message": msg}).             *)
(***************************************************************************)
NoContent == [none |-> TRUE]
String(s) == [text |-> s]
JSON(v) == [json |-> v]
NewHTTPError(msg) == JSON(JObj([message |-> JStr(msg)]))

NoReq == [handler |-> "none"]
NoLoc == [err |-> "nil"]

(***************************************************************************)
(* LoginRequestBody and c.Bind: a malformed body fails to bind and leaves  *)
(* the zero value.                                                         *)
(***************************************************************************)
Malformed == [malformed |-> TRUE]
LoginRequestBody ==
    [Username : Usernames, Password : Passwords]
        \cup {[Username |-> "", Password |-> "secret"], [Username |-> "alice", Password |-> ""]}

BindLogin(body) ==
    IF body = Malformed
    THEN [err |-> TRUE, Username |-> "", Password |-> ""]
    ELSE [err |-> FALSE, Username |-> body.Username, Password |-> body.Password]

(***************************************************************************)
(* bcrypt: a salted one-way hash.  The digest is symbolic: it stands for   *)
(* the salted digest of the password and is compared, never inverted.      *)
(***************************************************************************)
Digest(salt, password) == <<"bcrypt", salt, password>>

\* mutant: the hash does not depend on the password
GenerateFromPasswordConstant(password, salt) ==
    [salt |-> salt, digest |-> Digest(salt, "")]

GenerateFromPassword(password, salt) ==
    [salt |-> salt, digest |-> Digest(salt, password)]

\* mutant: a mismatch is reported as a malformed hash
CompareHashAndPasswordOtherError(hashedPass, password) ==
    IF hashedPass.digest = Digest(hashedPass.salt, password)
    THEN "nil"
    ELSE "ErrHashTooShort"

CompareHashAndPassword(hashedPass, password) ==
    IF hashedPass.digest = Digest(hashedPass.salt, password)
    THEN "nil"
    ELSE "ErrMismatchedHashAndPassword"

(***************************************************************************)
(* The users table: a bag of rows, since no constraint keeps Username      *)
(* unique.                                                                 *)
(***************************************************************************)
User == [Username : Usernames, HashedPass : [salt : Salts, digest : {Digest(s, w) : s \in Salts, w \in Passwords}]]

\* SELECT * FROM users WHERE username=?
UsersByUsername(username) == {u \in BagToSet(users) : u.Username = username}

\* mutant: the comparison of the WHERE clause is inverted
CountUsersByOtherUsername(username) ==
    BagCardinality([u \in {x \in BagToSet(users) : x.Username # username} |-> CopiesIn(u, users)])

\* SELECT COUNT(*) FROM users WHERE Username=?
CountUsersByUsername(username) ==
    BagCardinality([u \in UsersByUsername(username) |-> CopiesIn(u, users)])

\* mutant: the store keeps Username unique and drops the second row
InsertUserUnique(username, hashedPass) ==
    IF \E u \in BagToSet(users) : u.Username = username
    THEN users
    ELSE users (+) SetToBag({[Username |-> username, HashedPass |-> hashedPass]})

\* INSERT INTO users (Username, HashedPass) VALUES (?, ?)
InsertUser(username, hashedPass) ==
    users (+) SetToBag({[Username |-> username, HashedPass |-> hashedPass]})

(***************************************************************************)
(* The session store: the userName value of each cookie's session.         *)
(***************************************************************************)
Absent == "<nil>"
\* a request may carry a known cookie or none (a fresh, empty session)
NoCookie == "<none>"

\* mutant: the session of another cookie is read
SessionUserNameOther(s) ==
    IF s = NoCookie THEN Absent ELSE sessions[CHOOSE x \in SessionIds : x # s]

SessionUserName(s) == IF s = NoCookie THEN Absent ELSE sessions[s]

\* mutant: the value is written to every session
SetUserNameEverywhere(s, username) == [x \in SessionIds |-> username]

\* sess.Values["userName"] = username, saved
SetUserName(s, username) == [sessions EXCEPT ![s] = username]

(***************************************************************************)
(* Position of each request in its handler.  A request in flight keeps its *)
(* bound request and its locals; the exchange completed last (request,     *)
(* handler locals at the return, status and body) is kept in last.         *)
(***************************************************************************)
NoExchange == [req |-> NoReq, loc |-> NoLoc, status |-> 0, body |-> NoContent]

Begin(p) == pc[p] = "idle"

Return(p, rq, lc, status, body) ==
    /\ pc' = [pc EXCEPT ![p] = "idle"]
    /\ req' = [req EXCEPT ![p] = NoReq]
    /\ loc' = [loc EXCEPT ![p] = NoLoc]
    /\ last' = [req |-> rq, loc |-> lc, status |-> status, body |-> body]

Continue(p, label, rq, lc) ==
    /\ pc' = [pc EXCEPT ![p] = label]
    /\ req' = [req EXCEPT ![p] = rq]
    /\ loc' = [loc EXCEPT ![p] = lc]
    /\ UNCHANGED last

\* signups past the existence check that have not inserted yet
PendingInserts == Cardinality({q \in Procs : pc[q] = "SignUpInsert"})

(***************************************************************************)
(* SignUpHandler, up to the existence check.                               *)
(***************************************************************************)
SignUpHandler(p, bodies) ==
    /\ Begin(p)
    /\ \E body \in bodies :
        LET b == BindLogin(body)
            rq == [handler |-> "SignUpHandler", Username |-> b.Username, Password |-> b.Password]
            count == CountUsersByUsername(rq.Username)
        IN  IF b.err
            THEN Return(p, rq, [err |-> "bind"], StatusBadRequest, NewHTTPError("bad request body"))
            ELSE IF rq.Password = "" \/ rq.Username = ""
            THEN Return(p, rq, [err |-> "nil"], StatusBadRequest, String("Username or Password is empty"))
            ELSE \E getErr \in BOOLEAN :
                 IF getErr
                 THEN Return(p, rq, [err |-> "store"], StatusInternalServerError, NoContent)
                 ELSE IF count > 0
                 THEN Return(p, rq, [err |-> "nil", count |-> count], StatusConflict, String("Username is already used"))
                 ELSE /\ BagCardinality(users) + PendingInserts < MaxUsers
                      /\ Continue(p, "SignUpInsert", rq, [err |-> "nil", count |-> count])
    /\ UNCHANGED <<users, city, nextId, country, sessions>>

(***************************************************************************)
(* SignUpHandler, from hashing the password to the response.               *)
(***************************************************************************)
SignUpInsert(p) ==
    /\ pc[p] = "SignUpInsert"
    /\ \E hashErr \in BOOLEAN :
        IF hashErr
        THEN /\ Return(p, req[p], [err |-> "hash", count |-> loc[p].count], StatusInternalServerError, NoContent)
             /\ UNCHANGED users
        ELSE \E salt \in Salts, execErr \in BOOLEAN :
             LET hashedPass == GenerateFromPassword(req[p].Password, salt)
             IN  IF execErr
                 THEN /\ Return(p, req[p], [err |-> "store", count |-> loc[p].count], StatusInternalServerError, NoContent)
                      /\ UNCHANGED users
                 ELSE /\ users' = InsertUser(req[p].Username, hashedPass)
                      /\ Return(p, req[p], [err |-> "nil", count |-> loc[p].count], StatusCreated, NoContent)
    /\ UNCHANGED <<city, nextId, country, sessions>>

(***************************************************************************)
(* LoginHandler, up to the password comparison.                            *)
(***************************************************************************)
LoginHandler(p, bodies) ==
    /\ Begin(p)
    /\ \E body \in bodies, s \in SessionIds :
        LET b == BindLogin(body)
            rq == [handler |-> "LoginHandler", Username |-> b.Username, Password |-> b.Password, cookie |-> s]
            rows == UsersByUsername(rq.Username)
        IN  IF b.err
            THEN Return(p, rq, [err |-> "bind"], StatusBadRequest, String("bad request body"))
            ELSE IF rq.Password = "" \/ rq.Username = ""
            THEN Return(p, rq, [err |-> "nil"], StatusBadRequest, String("Username or Password is empty"))
            ELSE \E getErr \in BOOLEAN :
                 IF getErr
                 THEN Return(p, rq, [err |-> "store"], StatusInternalServerError, NoContent)
                 ELSE IF rows = {}
                 THEN Return(p, rq, [err |-> "ErrNoRows"], StatusUnauthorized, NoContent)
                 ELSE \E user \in rows :
                        LET err == CompareHashAndPassword(user.HashedPass, rq.Password)
                        IN  IF err = "ErrMismatchedHashAndPassword"
                            THEN Return(p, rq, [err |-> err, user |-> user], StatusUnauthorized, NoContent)
                            ELSE IF err # "nil"
                            THEN Return(p, rq, [err |-> err, user |-> user], StatusInternalServerError, NoContent)
                            ELSE Continue(p, "LoginSession", rq, [err |-> "nil", user |-> user])
    /\ UNCHANGED <<users, city, nextId, country, sessions>>

(***************************************************************************)
(* LoginHandler, the session part: session.Get, set userName, sess.Save,   *)
(* whose error the handler drops.  A failed Save may or may not have       *)
(* reached the store.                                                      *)
(***************************************************************************)
LoginSession(p) ==
    /\ pc[p] = "LoginSession"
    /\ \E sessErr \in BOOLEAN :
        IF sessErr
        THEN /\ Return(p, req[p], [err |-> "session", user |-> loc[p].user],
                       StatusInternalServerError, String("something wrong in getting session"))
             /\ UNCHANGED sessions
        ELSE \E saveErr \in BOOLEAN, stored \in BOOLEAN :
             /\ saveErr \/ stored
             /\ sessions' = IF stored
                            THEN SetUserName(req[p].cookie, req[p].Username)
                            ELSE sessions
             /\ Return(p, req[p], [err |-> "nil", user |-> loc[p].user, saveErr |-> saveErr],
                       StatusOK, NoContent)
    /\ UNCHANGED <<users, city, nextId, country>>

(***************************************************************************)
(* Me and GetMeHandler.                                                    *)
(***************************************************************************)
Me(username) ==
    JObj([k \in {f \in {"username"} : username # ""} |-> JStr(username)])

GetMeHandler(ctx) == [status |-> StatusOK, body |-> JSON(Me(ctx.userName))]

(***************************************************************************)
(* UserAuthMiddleware wrapping GetMeHandler (GET /me).                     *)
(***************************************************************************)
UserAuthMiddleware(p) ==
    /\ Begin(p)
    /\ \E s \in SessionIds \cup {NoCookie}, sessErr \in BOOLEAN :
        LET rq == [handler |-> "GetMeHandler", cookie |-> s]
            userName == SessionUserName(s)
        IN  IF sessErr
            THEN Return(p, rq, [err |-> "session", next |-> FALSE],
                        StatusInternalServerError, String("something wrong in getting session"))
            ELSE IF userName = Absent
            THEN Return(p, rq, [err |-> "nil", next |-> FALSE, userName |-> userName],
                        StatusUnauthorized, String("please login"))
            ELSE LET ctx == [userName |-> userName]
                     r == GetMeHandler(ctx)
                 IN  Return(p, rq, [err |-> "nil", next |-> TRUE, userName |-> userName],
                            r.status, r.body)
    /\ UNCHANGED <<users, city, nextId, country, sessions>>

(***************************************************************************)
(* Names in the store's ascending order (ORDER BY Name ASC).               *)
(***************************************************************************)
Collation == <<"Japan", "Kobe", "Korea", "Laos", "Osaka", "Tokyo">>

Rank(name) == CHOOSE i \in 1..Len(Collation) : Collation[i] = name

\* mutant: ORDER BY Name DESC
NthNameOrderedDesc(rows, offset) ==
    IF offset >= Cardinality(rows)
    THEN [err |-> "ErrNoRows", name |-> ""]
    ELSE [err |-> "nil",
          name |-> CHOOSE n \in {r.Name : r \in rows} :
                     /\ Cardinality({r \in rows : Rank(r.Name) > Rank(n)}) <= offset
                     /\ offset < Cardinality({r \in rows : Rank(r.Name) >= Rank(n)})]

\* ... ORDER BY Name ASC LIMIT 1 OFFSET ? over the given rows, selecting Name
NthNameOrdered(rows, offset) ==
    IF offset >= Cardinality(rows)
    THEN [err |-> "ErrNoRows", name |-> ""]
    ELSE [err |-> "nil",
          name |-> CHOOSE n \in {r.Name : r \in rows} :
                     /\ Cardinality({r \in rows : Rank(r.Name) < Rank(n)}) <= offset
                     /\ offset < Cardinality({r \in rows : Rank(r.Name) <= Rank(n)})]

\* the names of the rows in ascending order
SortedNames(rows) ==
    [i \in 1..Cardinality(rows) |-> NthNameOrdered(rows, i - 1).name]

(***************************************************************************)
(* The country table (read only): Code is the key, Name is not.            *)
(***************************************************************************)
Codes == {"JPN", "KOR", "LAO"}
CountryNames == {"Japan", "Korea", "Laos"}
Country == [Code : Codes, Name : CountryNames]
CountryTables ==
    {T \in SUBSET Country :
        /\ Cardinality(T) <= MaxCountries
        /\ \A a, b \in T : a.Code = b.Code => a = b}

\* select Code from country where Name = ?
CodesByName(countryName) == {r.Code : r \in {x \in country : x.Name = countryName}}

(***************************************************************************)
(* CityInput, the city table and its rows as City scans them.              *)
(***************************************************************************)
CityInput ==
    { [ID |-> 0, Name |-> "Kobe", CountryCode |-> "JPN", District |-> "Hyogo", Population |-> 1500],
      [ID |-> 0, Name |-> "Osaka", CountryCode |-> "JPN", District |-> "Osaka", Population |-> 2700],
      [ID |-> 0, Name |-> "Tokyo", CountryCode |-> "JPN", District |-> "", Population |-> 0],
      [ID |-> 0, Name |-> "Kobe", CountryCode |-> "KOR", District |-> "Hyogo", Population |-> 9] }

BindCity(body) ==
    IF body = Malformed
    THEN [err |-> TRUE, city |-> [ID |-> 0, Name |-> "", CountryCode |-> "", District |-> "", Population |-> 0]]
    ELSE [err |-> FALSE, city |-> body]

\* sql.NullString / sql.NullInt64 filled by Scan from a column that is not NULL
NullString(s) == [String |-> s, Valid |-> TRUE]
NullInt64(n) == [Int64 |-> n, Valid |-> TRUE]

City(row) ==
    [ID |-> row.ID, Name |-> NullString(row.Name), CountryCode |-> NullString(row.CountryCode),
     District |-> NullString(row.District), Population |-> NullInt64(row.Population)]

\* SELECT * FROM city WHERE Name=?
CitiesByName(cityName) == {r \in city : r.Name = cityName}

\* rows of city where CountryCode = ?
CitiesByCountryCode(countryCode) == {r \in city : r.CountryCode = countryCode}

\* select * from city where CountryCode = ? AND Name = ?
CitiesByCountryCodeAndName(countryCode, cityName) ==
    {r \in city : r.CountryCode = countryCode /\ r.Name = cityName}

\* INSERT INTO city (Name, CountryCode, District, Population) VALUES (?, ?, ?, ?)
InsertCity(input) ==
    city \cup {[ID |-> nextId, Name |-> input.Name, CountryCode |-> input.CountryCode,
                District |-> input.District, Population |-> input.Population]}

(***************************************************************************)
(* encoding/json of the response records.  omitempty drops an empty string *)
(* and a zero int; it never drops a struct, and sql.NullString and         *)
(* sql.NullInt64 are structs without a MarshalJSON of their own.           *)
(***************************************************************************)
MarshalNullString(v) == JObj([String |-> JStr(v.String), Valid |-> JBool(v.Valid)])
MarshalNullInt64(v) == JObj([Int64 |-> JNum(v.Int64), Valid |-> JBool(v.Valid)])

MarshalCity(c) ==
    LET keys == {"name", "countryCode", "district", "population"}
                    \cup {k \in {"id"} : c.ID # 0}
    IN  JObj([k \in keys |->
                CASE k = "id" -> JNum(c.ID)
                  [] k = "name" -> MarshalNullString(c.Name)
                  [] k = "countryCode" -> MarshalNullString(c.CountryCode)
                  [] k = "district" -> MarshalNullString(c.District)
                  [] k = "population" -> MarshalNullInt64(c.Population)])

MarshalCityInput(c) ==
    LET keys == {k \in {"id"} : c.ID # 0} \cup {k \in {"name"} : c.Name # ""}
                    \cup {k \in {"countryCode"} : c.CountryCode # ""}
                    \cup {k \in {"district"} : c.District # ""}
                    \cup {k \in {"population"} : c.Population # 0}
    IN  JObj([k \in keys |->
                CASE k = "id" -> JNum(c.ID)
                  [] k = "name" -> JStr(c.Name)
                  [] k = "countryCode" -> JStr(c.CountryCode)
                  [] k = "district" -> JStr(c.District)
                  [] k = "population" -> JNum(c.Population)])

\* a []string: the nil slice encodes as null
MarshalStrings(q) ==
    IF q = <<>> THEN JNull ELSE JArr([i \in 1..Len(q) |-> JStr(q[i])])

(***************************************************************************)
(* GetCityInfoHandler (GET /cities/:cityName).  Get scans the first row of *)
(* the result; the query has no ORDER BY, so any matching row may be first.*)
(***************************************************************************)
GetCityInfoHandler(p, names) ==
    /\ Begin(p)
    /\ \E cityName \in names, getErr \in BOOLEAN :
        LET rq == [handler |-> "GetCityInfoHandler", cityName |-> cityName]
            rows == CitiesByName(cityName)
        IN  IF getErr
            THEN Return(p, rq, [err |-> "store"], StatusInternalServerError, NoContent)
            ELSE IF rows = {}
            THEN Return(p, rq, [err |-> "ErrNoRows"], StatusNotFound, NoContent)
            ELSE \E row \in rows :
                    Return(p, rq, [err |-> "nil", city |-> City(row)], StatusOK, JSON(MarshalCity(City(row))))
    /\ UNCHANGED <<users, city, nextId, country, sessions>>

(***************************************************************************)
(* PostCityHandler (POST /cities).                                         *)
(***************************************************************************)
PostCityHandler(p, bodies) ==
    /\ Begin(p)
    /\ \E body \in bodies :
        LET b == BindCity(body)
            rq == [handler |-> "PostCityHandler", city |-> b.city]
        IN  IF b.err
            THEN /\ Return(p, rq, [err |-> "bind"], StatusBadRequest, NewHTTPError("bad request body"))
                 /\ UNCHANGED <<city, nextId>>
            ELSE \E execErr \in BOOLEAN :
                 IF execErr
                 THEN /\ Return(p, rq, [err |-> "store"], StatusInternalServerError, NoContent)
                      /\ UNCHANGED <<city, nextId>>
                 ELSE /\ Cardinality(city) < MaxCities
                      /\ city' = InsertCity(b.city)
                      /\ nextId' = nextId + 1
                      /\ \E idErr \in BOOLEAN :
                            IF idErr
                            THEN Return(p, rq, [err |-> "LastInsertId"], StatusInternalServerError, NoContent)
                            ELSE LET created == [b.city EXCEPT !.ID = nextId]
                                 IN  Return(p, rq, [err |-> "nil", city |-> created],
                                            StatusCreated, JSON(MarshalCityInput(created)))
    /\ UNCHANGED <<users, country, sessions>>

(***************************************************************************)
(* GetWorldHandler (GET /world/:countryName/:cityName), its first store    *)
(* call: the count of countries, or the lookup of the country's code.      *)
(***************************************************************************)
GetWorldHandler(p, countryNames, cityNames) ==
    /\ Begin(p)
    /\ \E countryName \in countryNames, cityName \in cityNames, getErr \in BOOLEAN :
        LET rq == [handler |-> "GetWorldHandler", countryName |-> countryName, cityName |-> cityName]
            howManyCountries == Cardinality(country)
            codes == CodesByName(countryName)
        IN  IF getErr
            THEN Return(p, rq, [err |-> "store"], StatusInternalServerError, NoContent)
            ELSE IF countryName = "allCountries"
            THEN IF howManyCountries = 0
                 THEN Return(p, rq, [err |-> "nil", howManyCountries |-> 0, countries |-> <<>>],
                             StatusOK, JSON(MarshalStrings(<<>>)))
                 ELSE Continue(p, "WorldNthCountry", rq,
                               [howManyCountries |-> howManyCountries, i |-> 0, countries |-> <<>>])
            ELSE IF codes = {}
            THEN Return(p, rq, [err |-> "ErrNoRows"], StatusNotFound, NoContent)
            ELSE \E countryCode \in codes :
                    Continue(p, IF cityName = "allCities" THEN "WorldCountCities" ELSE "WorldCityInfo",
                             rq, [countryCode |-> countryCode])
    /\ UNCHANGED <<users, city, nextId, country, sessions>>

\* one turn of the loop over the countries: the fetch at offset i
WorldNthCountry(p) ==
    /\ pc[p] = "WorldNthCountry"
    /\ \E getErr \in BOOLEAN :
        LET l == loc[p]
            got == NthNameOrdered(country, l.i)
            countries == Append(l.countries, got.name)
            done == [err |-> "nil", howManyCountries |-> l.howManyCountries, countries |-> countries]
        IN  IF getErr
            THEN Return(p, req[p], [err |-> "store"], StatusInternalServerError, NoContent)
            ELSE IF got.err = "ErrNoRows"
            THEN Return(p, req[p], [err |-> "ErrNoRows"], StatusNotFound, NoContent)
            ELSE IF l.i + 1 < l.howManyCountries
            THEN Continue(p, "WorldNthCountry", req[p], [l EXCEPT !.i = l.i + 1, !.countries = countries])
            ELSE Return(p, req[p], done, StatusOK, JSON(MarshalStrings(countries)))
    /\ UNCHANGED <<users, city, nextId, country, sessions>>

\* the count of the country's cities
WorldCountCities(p) ==
    /\ pc[p] = "WorldCountCities"
    /\ \E getErr \in BOOLEAN :
        LET l == loc[p]
            howManyCities == Cardinality(CitiesByCountryCode(l.countryCode))
        IN  IF getErr
            THEN Return(p, req[p], [err |-> "store"], StatusInternalServerError, NoContent)
            ELSE IF howManyCities = 0
            THEN Return(p, req[p], [err |-> "nil", countryCode |-> l.countryCode, howManyCities |-> 0,
                                    counted |-> <<>>, cities |-> <<>>],
                        StatusOK, JSON(MarshalStrings(<<>>)))
            ELSE Continue(p, "WorldNthCity", req[p],
                          [countryCode |-> l.countryCode, howManyCities |-> howManyCities,
                           counted |-> SortedNames(CitiesByCountryCode(l.countryCode)), i |-> 0, cities |-> <<>>])
    /\ UNCHANGED <<users, city, nextId, country, sessions>>

\* one turn of the loop over the cities: the fetch at offset i
WorldNthCity(p) ==
    /\ pc[p] = "WorldNthCity"
    /\ \E getErr \in BOOLEAN :
        LET l == loc[p]
            got == NthNameOrdered(CitiesByCountryCode(l.countryCode), l.i)
            cities == Append(l.cities, got.name)
            done == [err |-> "nil", countryCode |-> l.countryCode, howManyCities |-> l.howManyCities,
                     counted |-> l.counted, cities |-> cities]
        IN  IF getErr
            THEN Return(p, req[p], [err |-> "store"], StatusInternalServerError, NoContent)
            ELSE IF got.err = "ErrNoRows"
            THEN Return(p, req[p], [err |-> "ErrNoRows"], StatusNotFound, NoContent)
            ELSE IF l.i + 1 < l.howManyCities
            THEN Continue(p, "WorldNthCity", req[p], [l EXCEPT !.i = l.i + 1, !.cities = cities])
            ELSE Return(p, req[p], done, StatusOK, JSON(MarshalStrings(cities)))
    /\ UNCHANGED <<users, city, nextId, country, sessions>>

\* the single city of the country
WorldCityInfo(p) ==
    /\ pc[p] = "WorldCityInfo"
    /\ \E getErr \in BOOLEAN :
        LET l == loc[p]
            rows == CitiesByCountryCodeAndName(l.countryCode, req[p].cityName)
        IN  IF getErr
            THEN Return(p, req[p], [err |-> "store"], StatusInternalServerError, NoContent)
            ELSE IF rows = {}
            THEN Return(p, req[p], [err |-> "ErrNoRows", countryCode |-> l.countryCode], StatusNotFound, NoContent)
            ELSE \E row \in rows :
                    Return(p, req[p], [err |-> "nil", countryCode |-> l.countryCode, cityInfo |-> City(row)],
                           StatusOK, JSON(MarshalCity(City(row))))
    /\ UNCHANGED <<users, city, nextId, country, sessions>>

(***************************************************************************)
(* Initial state: no user, no city, a country table of two countries, no   *)
(* session logged in, no request running.                                  *)
(***************************************************************************)
Init ==
    /\ users = EmptyBag
    /\ city = {}
    /\ nextId = 1
    /\ country = {[Code |-> "JPN", Name |-> "Japan"], [Code |-> "KOR", Name |-> "Korea"]}
    /\ sessions = [s \in SessionIds |-> Absent]
    /\ pc = [p \in Procs |-> "idle"]
    /\ req = [p \in Procs |-> NoReq]
    /\ loc = [p \in Procs |-> NoLoc]
    /\ last = NoExchange

NextAuth ==
    \E p \in Procs :
        \/ SignUpHandler(p, LoginRequestBody \cup {Malformed})
        \/ SignUpInsert(p)
        \/ LoginHandler(p, LoginRequestBody \cup {Malformed})
        \/ LoginSession(p)
        \/ UserAuthMiddleware(p)

SpecAuth == Init /\ [][NextAuth]_vars

(***************************************************************************)
(* GET /world/allCountries/..., over every content of the country table.   *)
(***************************************************************************)
InitCountries ==
    /\ users = EmptyBag
    /\ city = {}
    /\ nextId = 1
    /\ country \in CountryTables
    /\ sessions = [s \in SessionIds |-> Absent]
    /\ pc = [p \in Procs |-> "idle"]
    /\ req = [p \in Procs |-> NoReq]
    /\ loc = [p \in Procs |-> NoLoc]
    /\ last = NoExchange

CityNames == {"Kobe", "Osaka", "Tokyo"}

NextCountries ==
    \E p \in Procs :
        \/ GetWorldHandler(p, {"allCountries"}, CityNames \cup {"allCities"})
        \/ WorldNthCountry(p)

SpecCountries == InitCountries /\ [][NextCountries]_vars

(***************************************************************************)
(* The city routes and the world routes of one country, over a country     *)
(* table of two countries.                                                 *)
(***************************************************************************)
NextCities ==
    \E p \in Procs :
        \/ GetCityInfoHandler(p, CityNames)
        \/ PostCityHandler(p, CityInput \cup {Malformed})
        \/ GetWorldHandler(p, {"Japan", "Korea", "Laos"}, CityNames \cup {"allCities"})
        \/ WorldCountCities(p)
        \/ WorldNthCity(p)
        \/ WorldCityInfo(p)

SpecCities == Init /\ [][NextCities]_vars

(***************************************************************************)
(* Every route together, over fewer request inputs.                        *)
(***************************************************************************)
Next ==
    \E p \in Procs :
        \/ SignUpHandler(p, {[Username |-> "alice", Password |-> "secret"]})
        \/ SignUpInsert(p)
        \/ LoginHandler(p, {[Username |-> "alice", Password |-> "secret"], [Username |-> "alice", Password |-> "hunter2"]})
        \/ LoginSession(p)
        \/ UserAuthMiddleware(p)
        \/ GetCityInfoHandler(p, {"Kobe"})
        \/ PostCityHandler(p, {[ID |-> 0, Name |-> "Kobe", CountryCode |-> "JPN", District |-> "Hyogo", Population |-> 1500]})
        \/ GetWorldHandler(p, {"allCountries", "Japan"}, {"allCities", "Kobe"})
        \/ WorldNthCountry(p)
        \/ WorldCountCities(p)
        \/ WorldNthCity(p)
        \/ WorldCityInfo(p)

Spec == Init /\ [][Next]_vars

(***************************************************************************)
(* Vocabulary of the properties.                                           *)
(***************************************************************************)
\* some request began and returned within this step, handled by h
ReturnedAtOnce(h) == pc' = pc /\ last' # last /\ last'.req.handler = h

\* the request of p, waiting at label, returns in this step
ReturnedFrom(p, label) == pc[p] = label /\ pc'[p] = "idle"

\* the stored hash is the hash of the password
Verifies(row, password) == row.HashedPass.digest = Digest(row.HashedPass.salt, password)

\* rows of a users table with the username
RowsOf(table, username) ==
    BagCardinality([u \in {x \in BagToSet(table) : x.Username = username} |-> CopiesIn(u, table)])

NonEmpty(rq) == rq.Username # "" /\ rq.Password # ""

MeBody(username) == JSON(JObj([username |-> JStr(username)]))

\* the steps of SignUpHandler, LoginHandler and GET /me that C1 is about
C1_SignUpStep ==
    /\ (/\ ReturnedAtOnce("SignUpHandler")
        /\ NonEmpty(last'.req)
        /\ RowsOf(users, last'.req.Username) = 0)
       => (last'.status = StatusInternalServerError /\ last'.loc.err = "store")
    /\ \A p \in Procs :
        ReturnedFrom(p, "SignUpInsert") =>
            IF last'.loc.err = "nil"
            THEN /\ last'.status = StatusCreated
                 /\ last'.body = NoContent
                 /\ \E row \in BagToSet(users') :
                        row.Username = req[p].Username /\ Verifies(row, req[p].Password)
            ELSE last'.status = StatusInternalServerError

C1_LoginStep ==
    /\ (/\ ReturnedAtOnce("LoginHandler")
        /\ NonEmpty(last'.req)
        /\ RowsOf(users, last'.req.Username) > 0
        /\ \A row \in BagToSet(users) :
                row.Username = last'.req.Username => Verifies(row, last'.req.Password))
       => (last'.status = StatusInternalServerError /\ last'.loc.err = "store")
    /\ \A p \in Procs :
        ReturnedFrom(p, "LoginSession") =>
            IF last'.loc.err = "nil"
            THEN /\ last'.status = StatusOK
                 /\ last'.body = NoContent
                 /\ ~last'.loc.saveErr => sessions'[req[p].cookie] = req[p].Username
            ELSE last'.status = StatusInternalServerError

C1_MeStep ==
    (ReturnedAtOnce("GetMeHandler") /\ last'.loc.err = "nil") =>
        LET s == last'.req.cookie IN
        IF s = NoCookie \/ sessions[s] = Absent
        THEN last'.status = StatusUnauthorized
        ELSE last'.status = StatusOK /\ last'.body = MeBody(sessions[s])

(***************************************************************************)
(* C1: with no store, hash or session failure, a signup of a non-empty     *)
(* username and password whose username has no row ends 201 and leaves a   *)
(* row whose hash verifies the password; a login whose username has only   *)
(* rows verifying the password ends 200 and stores the username in the     *)
(* session of the request's cookie; GET /me on a session holding a         *)
(* username ends 200 with that username, and on a session holding none     *)
(* ends 401.                                                               *)
(***************************************************************************)
C1_SignupLoginMe == [][C1_SignUpStep /\ C1_LoginStep /\ C1_MeStep]_vars

\* signup, login and GET /me have run in turn: /me answered 200 with alice
C1_Witness ==
    /\ last.req.handler = "GetMeHandler"
    /\ last.status = StatusOK
    /\ last.body = MeBody("alice")
    /\ sessions[last.req.cookie] = "alice"
    /\ RowsOf(users, "alice") = 1

\* a step of UserAuthMiddleware whose session.Get succeeded
C2_MiddlewareStep ==
    (ReturnedAtOnce("GetMeHandler") /\ last'.loc.err = "nil") =>
        LET s == last'.req.cookie
            stored == IF s = NoCookie THEN Absent ELSE sessions[s]
        IN  IF stored = Absent
            THEN /\ last'.status = StatusUnauthorized
                 /\ last'.body = String("please login")
                 /\ ~last'.loc.next
            ELSE /\ last'.loc.next
                 /\ last'.loc.userName = stored
                 /\ last'.status = StatusOK
                 /\ last'.body = MeBody(stored)

(***************************************************************************)
(* C2: a request through the auth middleware whose session holds no        *)
(* userName ends 401 with the body "please login" without the next handler *)
(* being invoked; otherwise the session's userName is put in the request   *)
(* context, the next handler is invoked, and the response is 200 with      *)
(* exactly that userName.                                                  *)
(***************************************************************************)
C2_AuthMiddleware == [][C2_MiddlewareStep]_vars

\* the middleware let a request through while another session is logged out
C2_Witness ==
    /\ last.req.handler = "GetMeHandler"
    /\ last.loc.next
    /\ last.status = StatusOK
    /\ \E s \in SessionIds : sessions[s] = Absent

\* the existence check of a signup
C3_DuplicateStep ==
    /\ (/\ ReturnedAtOnce("SignUpHandler")
        /\ NonEmpty(last'.req)
        /\ last'.loc.err = "nil"
        /\ RowsOf(users, last'.req.Username) > 0)
       => /\ last'.status = StatusConflict
          /\ last'.body = String("Username is already used")
          /\ users' = users
          /\ RowsOf(users, last'.req.Username) = 1 => RowsOf(users', last'.req.Username) = 1
    /\ \A p \in Procs :
        (pc[p] = "idle" /\ pc'[p] = "SignUpInsert") => RowsOf(users, req'[p].Username) = 0

(***************************************************************************)
(* C3: a signup of a non-empty username and password that starts when the  *)
(* username has a row (an earlier signup of it returned 201) ends 409      *)
(* "Username is already used", never reaches the insert, and leaves the    *)
(* users table as it was: the username keeps its one row.                  *)
(***************************************************************************)
C3_DuplicateSignup == [][C3_DuplicateStep]_vars

\* the second signup of a username was answered 409 and the username has one row
C3_Witness ==
    /\ last.req.handler = "SignUpHandler"
    /\ last.status = StatusConflict
    /\ RowsOf(users, last.req.Username) = 1

\* the insert of a signup
C4_InsertStep ==
    \A p \in Procs :
        (ReturnedFrom(p, "SignUpInsert") /\ last'.loc.err = "nil") =>
            /\ loc[p].count = 0
            /\ last'.status = StatusCreated
            /\ RowsOf(users', req[p].Username) = RowsOf(users, req[p].Username) + 1

(***************************************************************************)
(* C4: the insert of a signup that read count = 0 is not conditional on    *)
(* the table: with no hash or store failure it adds its row and answers    *)
(* 201 whatever rows the username has by then, so two signups of one       *)
(* username that both passed the existence check both insert and both      *)
(* answer 201.                                                             *)
(***************************************************************************)
C4_SignupRace == [][C4_InsertStep]_vars

\* two rows for one username, the second inserted by a signup that had read count = 0
C4_Witness ==
    /\ last.req.handler = "SignUpHandler"
    /\ last.status = StatusCreated
    /\ last.loc.count = 0
    /\ RowsOf(users, last.req.Username) = 2

\* a login that returns on the credentials
C5_BadCredentialsStep ==
    (/\ ReturnedAtOnce("LoginHandler")
     /\ NonEmpty(last'.req)
     /\ last'.loc.err # "store")
    => /\ last'.status = StatusUnauthorized
       /\ last'.body = NoContent
       /\ \/ RowsOf(users, last'.req.Username) = 0
          \/ \E row \in BagToSet(users) :
                row.Username = last'.req.Username /\ ~Verifies(row, last'.req.Password)

C6_FailureIs500 ==
    LET failed == \/ last.loc.err \in {"store", "hash", "session", "LastInsertId"}
                  \/ (last.req.handler = "LoginHandler" /\ last.status = StatusOK /\ last.loc.saveErr)
    IN  failed => last.status = StatusInternalServerError

\* how often a name occurs in a list of names
Occurrences(q, name) == Cardinality({i \in 1..Len(q) : q[i] = name})

AllCountriesOK ==
    /\ last.req.handler = "GetWorldHandler"
    /\ last.req.countryName = "allCountries"
    /\ last.status = StatusOK

AllCitiesOK ==
    /\ last.req.handler = "GetWorldHandler"
    /\ last.req.countryName # "allCountries"
    /\ last.req.cityName = "allCities"
    /\ last.status = StatusOK

(***************************************************************************)
(* C7 as stated: a 200 response of GET /world/allCountries/... lists as    *)
(* many names as the country table has rows, each name strictly less than  *)
(* the next, for every content of the country table.                       *)
(***************************************************************************)
C7_StrictlyAscending ==
    AllCountriesOK =>
        LET q == last.loc.countries
        IN  /\ Len(q) = Cardinality(country)
            /\ \A i \in 1..(Len(q) - 1) : Rank(q[i]) < Rank(q[i + 1])

(***************************************************************************)
(* C7 as amended: a 200 response of GET /world/allCountries/... lists the  *)
(* Name of every row of the country table, as many names as the table has  *)
(* rows, each name less than or equal to the next (two countries may share *)
(* a name: it is listed once per row); the list of an empty table is       *)
(* encoded as JSON null.                                                   *)
(***************************************************************************)
C7_Ascending ==
    AllCountriesOK =>
        LET q == last.loc.countries
        IN  /\ Len(q) = Cardinality(country)
            /\ \A i \in 1..(Len(q) - 1) : Rank(q[i]) <= Rank(q[i + 1])
            /\ \A n \in CountryNames : Occurrences(q, n) = Cardinality({r \in country : r.Name = n})
            /\ last.body = JSON(IF Len(q) = 0 THEN JNull ELSE JArr([i \in 1..Len(q) |-> JStr(q[i])]))

\* a 200 response that lists one name twice, for two countries of that name
C7_Witness ==
    /\ AllCountriesOK
    /\ Len(last.loc.countries) = 2
    /\ last.loc.countries[1] = last.loc.countries[2]

\* a field of a JSON object holds the value, or is left out for the empty value
C8_FieldIs(o, key, value, empty) ==
    IF key \in DOMAIN o THEN o[key] = value ELSE value = empty

C8_RoundTripStep ==
    (/\ last.req.handler = "PostCityHandler"
     /\ last.status = StatusCreated
     /\ ReturnedAtOnce("GetCityInfoHandler")
     /\ last'.req.cityName = last.req.city.Name
     /\ last'.loc.err # "store")
    => LET posted == last.loc.city
       IN  /\ last'.status = StatusOK
           /\ "json" \in DOMAIN last'.body
           /\ LET o == last'.body.json.obj
              IN  /\ posted.ID > 0
                  /\ C8_FieldIs(o, "id", JNum(posted.ID), JNum(0))
                  /\ C8_FieldIs(o, "name", JStr(posted.Name), JStr(""))
                  /\ C8_FieldIs(o, "countryCode", JStr(posted.CountryCode), JStr(""))
                  /\ C8_FieldIs(o, "district", JStr(posted.District), JStr(""))
                  /\ C8_FieldIs(o, "population", JNum(posted.Population), JNum(0))

(***************************************************************************)
(* C8: after a POST /cities that returned 201, a GET /cities/{name} with   *)
(* the posted name returns 200 (no store failure) with name, countryCode,  *)
(* district and population equal to the posted values and with the id the  *)
(* POST echoed, a positive integer, whatever other cities the store holds. *)
(***************************************************************************)
C8_RoundTrip == [][C8_RoundTripStep]_vars

(***************************************************************************)
(* C9: a 200 response of GET /world/{country}/allCities, under every       *)
(* interleaving with POST /cities, is the ascending list of the names of   *)
(* the country's cities at one instant of the request.  Cities are only    *)
(* added and the list has as many names as the count found, so that        *)
(* instant is the one of the count: no name is listed more often than it   *)
(* has rows, and no city counted is missing.                               *)
(***************************************************************************)
C9_Snapshot ==
    AllCitiesOK =>
        LET q == last.loc.cities
            rows == {r \in city : r.CountryCode = last.loc.countryCode}
        IN  /\ q = last.loc.counted
            /\ \A n \in {r.Name : r \in rows} : Occurrences(q, n) <= Cardinality({r \in rows : r.Name = n})
            /\ \A i \in 1..Len(last.loc.counted) : Occurrences(q, last.loc.counted[i]) > 0

\* the only step that may change a session, and what a session may hold
C10_SessionStep ==
    \A s \in SessionIds :
        sessions'[s] # sessions[s] =>
            \E p \in Procs :
                /\ ReturnedFrom(p, "LoginSession")
                /\ req[p].handler = "LoginHandler"
                /\ req[p].cookie = s
                /\ NonEmpty(req[p])
                /\ loc[p].user \in BagToSet(users)
                /\ loc[p].user.Username = req[p].Username
                /\ Verifies(loc[p].user, req[p].Password)
                /\ sessions'[s] = req[p].Username
                /\ last'.status = StatusOK

C10_SessionOfUser ==
    \A s \in SessionIds : sessions[s] = Absent \/ RowsOf(users, sessions[s]) > 0

====
